---- MODULE Spec2Model ----
(***************************************************************************)
(* Customer ledger of the HCP ERP: the customers, invoices, payments and   *)
(* transactions collections, the Transaction Recorder (createTransaction   *)
(* and updateCustomerBalance of lib/firestore.ts) and the page handlers    *)
(* that write to the collections.                                          *)
(*                                                                         *)
(* Money is in cents (250.00 is 25000).  Every handler is a sequence of    *)
(* awaited persistence calls; each call is one step and may be rejected by *)
(* the backing store.  Two sessions (browser tabs or users) share the      *)
(* store; a form shows the snapshot its page loaded.                       *)
(*                                                                         *)
(* Spec is the ledger with both sessions and rejected calls; FormSpec is   *)
(* one invoice form filled in line by line; OrderSpec is the creation of   *)
(* invoices at chosen clock readings; RaceSpec is two sessions recording   *)
(* payments with nothing ordering their calls; ReportSpec is the read path *)
(* (reports, dashboard, statement) over dated rows; DashSpec is the        *)
(* dashboard over invoices of several products; AuthSpec is sign-in,       *)
(* the inactivity timer, in minutes, and the deletes of one browser.       *)
(***************************************************************************)
EXTENDS Integers, Sequences, FiniteSets, TLC

VARIABLES customers, invoices, payments, transactions, nextId, clock,
          pc, loc, failures, ops, recorded, auth

vars == <<customers, invoices, payments, transactions, nextId, clock,
          pc, loc, failures, ops, recorded, auth>>

(* ------------------------------ bounds --------------------------------- *)
MaxOps == 2
MaxFailures == 1

Procs == {1, 2}
NoId == 0

PayAmounts == {28500}
PaymentTypes == {"payment", "refund"}
InvoiceTypes == {"sale", "return"}
OpeningBalances == {0, 10000}
DiscountRates == {20}
Bystanders == {2, 3}
InvalidRate == 101
StatusChoices == {"pending", "paid"}

(* ------------------------------ seed data ------------------------------ *)
DemoCustomers ==
    (1 :> [balance |-> 25000, discountRate |-> 5]) @@
    (2 :> [balance |-> -50000, discountRate |-> 15]) @@
    (3 :> [balance |-> 12550, discountRate |-> 10])

DemoProducts ==
    (1 :> [price |-> 15000]) @@
    (2 :> [price |-> 850]) @@
    (3 :> [price |-> 4599]) @@
    (4 :> [price |-> 1299]) @@
    (5 :> [price |-> 1850])

DemoInvoices ==
    (1 :> [orderNumber |-> [day |-> -1, time |-> 1], customerId |-> 1,
           items |-> <<[productId |-> 1, quantity |-> 2,
                        unitPrice |-> 15000, total |-> 30000]>>,
           subtotal |-> 30000, discountRate |-> 5, discountAmount |-> 1500,
           total |-> 28500, status |-> "paid", type |-> "sale"]) @@
    (2 :> [orderNumber |-> [day |-> -1, time |-> 2], customerId |-> 2,
           items |-> <<[productId |-> 2, quantity |-> 100,
                        unitPrice |-> 850, total |-> 85000]>>,
           subtotal |-> 85000, discountRate |-> 15, discountAmount |-> 12750,
           total |-> 72250, status |-> "pending", type |-> "sale"])

DemoPayments ==
    (1 :> [customerId |-> 1, amount |-> 28500, type |-> "payment"])

FirstFreeId == 4

(* --------------------------- store operations -------------------------- *)
Exists(coll, id) == id \in DOMAIN coll

CreateDoc(coll, id, data) == (id :> data) @@ coll

DeleteDocMutant(coll, id) == [k \in DOMAIN coll \cap {id} |-> coll[k]]

DeleteDoc(coll, id) == [k \in DOMAIN coll \ {id} |-> coll[k]]

AppendDocMutant(docs, data) == <<data>>

AppendDoc(docs, data) == Append(docs, data)

(* --------------------------- ledger arithmetic ------------------------- *)
NewBalance(balance, debit, credit) == balance + debit - credit

UpdatedBalance(balance, amount) == balance + amount

RecordedAmountMutant(debit, credit) == debit + credit

RecordedAmount(debit, credit) == debit - credit

(* ------------------------------ invoice form -------------------------- *)
(* addItem: a blank line is appended *)
BlankItem == [productId |-> NoId, quantity |-> 1, unitPrice |-> 0, total |-> 0]

AddedItem(items) == Append(items, BlankItem)

(* removeItem: prev.filter((_, i) => i !== index) *)
RemovedItem(items, index) ==
    SubSeq(items, 1, index - 1) \o SubSeq(items, index + 1, Len(items))

(* updateItem: the field is set; selecting a product copies its price; the *)
(* line total is recomputed only when the quantity or the unit price is    *)
(* the field that changed                                                  *)
UpdatedItem(item, field, value) ==
    LET set == [item EXCEPT ![field] = value]
        priced == IF field = "productId" /\ value \in DOMAIN DemoProducts
                  THEN [set EXCEPT !.unitPrice = DemoProducts[value].price]
                  ELSE set
    IN IF field \in {"quantity", "unitPrice"}
       THEN [priced EXCEPT !.total = priced.quantity * priced.unitPrice]
       ELSE priced

UpdatedItems(items, index, field, value) ==
    [items EXCEPT ![index] = UpdatedItem(items[index], field, value)]

(* the lines the operator of the ledger model enters: none, or one line    *)
(* added, its product selected and its quantity set to 2                   *)
ItemLists ==
    {<<>>,
     UpdatedItems(UpdatedItems(AddedItem(<<>>), 1, "productId", 1),
                  1, "quantity", 2)}

(* InvoiceForm.handleSubmit: a customer is selected and a line exists *)
ValidInvoice(selected, items) == selected /\ Len(items) # 0

(* InvoiceForm.handleSubmit: if (!initialData) the ledger is posted to *)
PostsToLedgerMutant(initialData) == TRUE

PostsToLedger(initialData) == ~initialData

RECURSIVE Subtotal(_)
Subtotal(items) ==
    IF items = <<>> THEN 0 ELSE Head(items).total + Subtotal(Tail(items))

(* calculations.discountAmount: subtotal * (discountRate / 100) *)
DiscountAmountMutant(subtotal, rate) == subtotal * rate

DiscountAmount(subtotal, rate) == (subtotal * rate) \div 100

InvoiceTotal(subtotal, rate) == subtotal - DiscountAmount(subtotal, rate)

(* generateOrderNumber: 'HCP' + YYYYMMDD + last six digits of the ms clock *)
MsPerDay == 86400000
TimeModulus == 1000000

generateOrderNumber(ms) ==
    [day |-> ms \div MsPerDay, time |-> ms % TimeModulus]

(* InvoiceForm.handleSubmit: the arguments of the recording *)
TransactionAmount(type, total) == IF type = "sale" THEN total ELSE 0 - total

InvoiceTxType(type) == IF type = "sale" THEN "invoice" ELSE "return"

InvoiceDebit(type, total) == IF type = "sale" THEN total ELSE 0

InvoiceCredit(type, total) == IF type = "return" THEN total ELSE 0

NoInvoice ==
    [orderNumber |-> [day |-> 0, time |-> 0], customerId |-> NoId,
     items |-> <<>>, subtotal |-> 0, discountRate |-> 0,
     discountAmount |-> 0, total |-> 0, status |-> "pending",
     type |-> "sale"]

(* ------------------------------ validation ----------------------------- *)
(* PaymentForm.validateForm *)
ValidPaymentMutant(selected, amount) == selected

ValidPayment(selected, amount) == selected /\ amount > 0

(* PaymentForm: the 'New Balance' shown before submission *)
PreviewBalance(balance, amount, ptype) ==
    balance - (IF ptype = "payment" THEN amount ELSE 0 - amount)

(* CustomerForm.validateForm: name, phone and address are filled in and    *)
(* the discount rate lies in 0..100                                        *)
ValidCustomer(filled, rate) == filled /\ rate >= 0 /\ rate <= 100

(* ------------------------------ sessions ------------------------------- *)
NoRef == [kind |-> "none", day |-> 0, n |-> 0]

IdleLoc ==
    [op |-> "none", cust |-> NoId, amount |-> 0, ptype |-> "payment",
     txType |-> "payment", debit |-> 0, credit |-> 0, ref |-> NoRef,
     readBalance |-> 0, newBalance |-> 0, ucbAmount |-> 0,
     ucbCaller |-> "none",
     snapBalance |-> 0, snapRate |-> 0, snapFound |-> FALSE,
     target |-> NoId, inv |-> NoInvoice, inv0 |-> NoInvoice,
     selected |-> FALSE, filled |-> FALSE, rate |-> 0,
     bal0 |-> 0, len0 |-> 0, ctBal0 |-> 0, ctLen0 |-> 0,
     ctState |-> "none", ctResolved |-> "unknown", outcome |-> "none",
     view |-> [kind |-> "none", data |-> <<>>,
               filters |-> [startDate |-> <<>>, endDate |-> <<>>,
                            customerId |-> NoId, productId |-> NoId,
                            category |-> "", paymentMethod |-> "",
                            status |-> ""]]]

HandlerPcs == {"pay_create", "ct_getById", "ct_create", "ucb_getById",
               "ucb_update", "ct_return", "inv_create"}

FormPcs == {"pay_form", "inv_form", "einv_form", "cust_form", "del_confirm"}

(* a persistence call may be rejected while the failure budget lasts *)
CallOutcomes == IF failures < MaxFailures THEN {TRUE, FALSE} ELSE {TRUE}

Charge(ok) == failures' = IF ok THEN failures ELSE failures + 1

(* an operation begins: a dialog is opened or a confirmed action starts *)
Begin == ops < MaxOps /\ ops' = ops + 1

(* ---------------------------- authentication --------------------------- *)
Roles == {"admin", "supervisor", "user"}

(* ROLE_PERMISSIONS[role][module].canDelete; permissions is null, and the  *)
(* menu item absent, when no user is signed in                             *)
CanDelete(role, module) == role = "admin"

(* the inactivity timeout, in minutes *)
Timeout == 5
NoTimer == -1

(* the user, the minutes left on the inactivity timer or NoTimer, whether  *)
(* a logout awaits mockAuth.signOut and who invoked it; idle counts the    *)
(* minutes since the sign-in or the last activity event, firedAt is idle   *)
(* at the time the timer invoked the logout                                *)
SignedOut ==
    [user |-> "none", timer |-> NoTimer, idle |-> 0, out |-> "no",
     firedAt |-> 0]

resetTimerMutant(a) == a

(* resetTimer: clearTimeout, then setTimeout(..., 5 * 60 * 1000) *)
resetTimer(a) == [a EXCEPT !.timer = Timeout]

SignedIn(role) == resetTimer([SignedOut EXCEPT !.user = role])

(* an activity event reaches the listeners, registered while a user is     *)
(* signed in                                                               *)
Event(a) == IF a.user # "none" THEN [resetTimer(a) EXCEPT !.idle = 0] ELSE a

(* a click is a mousedown *)
Click(p) == auth' = [auth EXCEPT ![p] = Event(auth[p])]

BalanceOf(c) == IF Exists(customers, c) THEN customers[c].balance ELSE 0

Init ==
    /\ customers = DemoCustomers
    /\ invoices = DemoInvoices
    /\ payments = DemoPayments
    /\ transactions = <<>>
    /\ nextId = FirstFreeId
    /\ clock = 0
    /\ pc = [p \in Procs |-> "idle"]
    /\ loc = [p \in Procs |-> IdleLoc]
    /\ failures = 0
    /\ ops = 0
    /\ recorded = {}
    /\ auth = [p \in Procs |-> SignedIn("admin")]

(* history: the customers for whom a recording has completed *)
Completed(l) ==
    IF l.ctResolved = "found" THEN recorded \cup {l.cust} ELSE recorded

(* the handler ends: a caught error is notified, an uncaught one is not *)
Finish(p, l, outcome) ==
    /\ pc' = [pc EXCEPT ![p] = "done"]
    /\ loc' = [loc EXCEPT ![p] = [l EXCEPT !.outcome = outcome]]

Failed(p, l) ==
    Finish(p, [l EXCEPT !.ctState =
                  IF l.ctState = "called" THEN "failed" ELSE l.ctState],
           IF l.op = "payment" THEN "error" ELSE "unhandled")

(* ------------------------- Accounting: payments ------------------------ *)
OpenPaymentForm(p, c) ==
    /\ pc[p] = "idle"
    /\ Begin
    /\ Exists(customers, c)
    /\ pc' = [pc EXCEPT ![p] = "pay_form"]
    /\ loc' = [loc EXCEPT ![p] =
                 [IdleLoc EXCEPT !.op = "payment", !.cust = c,
                                 !.snapFound = TRUE,
                                 !.snapBalance = customers[c].balance]]
    /\ UNCHANGED <<customers, invoices, payments, transactions, nextId,
                   clock, failures, recorded>>
    /\ UNCHANGED auth

(* PaymentForm.handleSubmit: validateForm, then onSubmit(paymentData) *)
SubmitPayment(p, selected, amount, ptype) ==
    /\ pc[p] = "pay_form"
    /\ LET l == [loc[p] EXCEPT !.amount = amount, !.ptype = ptype,
                               !.selected = selected,
                               !.bal0 = BalanceOf(loc[p].cust),
                               !.len0 = Len(transactions)]
       IN IF ~ValidPayment(selected, amount)
          THEN Finish(p, l, "invalid")
          ELSE /\ pc' = [pc EXCEPT ![p] = "pay_create"]
               /\ loc' = [loc EXCEPT ![p] = l]
    /\ UNCHANGED <<customers, invoices, payments, transactions, nextId,
                   clock, failures, ops, recorded>>
    /\ UNCHANGED auth

(* handleCreatePayment: paymentsService.create, then createTransaction *)
CreatePayment(p, ok) ==
    /\ pc[p] = "pay_create"
    /\ Charge(ok)
    /\ LET l == loc[p] IN
       IF ok
       THEN /\ payments' = CreateDoc(payments, nextId,
                              [customerId |-> l.cust, amount |-> l.amount,
                               type |-> l.ptype])
            /\ nextId' = nextId + 1
            /\ pc' = [pc EXCEPT ![p] = "ct_getById"]
            /\ loc' = [loc EXCEPT ![p] =
                         [l EXCEPT !.txType = "payment", !.debit = 0,
                                   !.credit = l.amount,
                                   !.ref = [kind |-> "payment", day |-> 0,
                                            n |-> nextId],
                                   !.ctState = "called",
                                   !.ctBal0 = BalanceOf(l.cust),
                                   !.ctLen0 = Len(transactions)]]
       ELSE /\ Failed(p, l)
            /\ UNCHANGED <<payments, nextId>>
    /\ UNCHANGED <<customers, invoices, transactions, clock, ops, recorded>>
    /\ UNCHANGED auth

(* ------------------------- Transaction Recorder ------------------------ *)
(* createTransaction: customersService.getById; absent customer => return *)
CtGetById(p, ok) ==
    /\ pc[p] = "ct_getById"
    /\ Charge(ok)
    /\ LET l == loc[p] IN
       IF ~ok THEN Failed(p, l)
       ELSE IF ~Exists(customers, l.cust)
       THEN /\ pc' = [pc EXCEPT ![p] = "ct_return"]
            /\ loc' = [loc EXCEPT ![p] = [l EXCEPT !.ctState = "returned",
                                                   !.ctResolved = "absent"]]
       ELSE /\ pc' = [pc EXCEPT ![p] = "ct_create"]
            /\ loc' = [loc EXCEPT ![p] =
                         [l EXCEPT !.ctResolved = "found", !.newBalance =
                             NewBalance(customers[l.cust].balance,
                                        l.debit, l.credit)]]
    /\ UNCHANGED <<customers, invoices, payments, transactions, nextId,
                   clock, ops, recorded>>
    /\ UNCHANGED auth

(* createTransaction: transactionsService.create(transaction) *)
CtCreate(p, ok) ==
    /\ pc[p] = "ct_create"
    /\ Charge(ok)
    /\ LET l == loc[p] IN
       IF ok
       THEN /\ transactions' = AppendDoc(transactions,
                                  [id |-> nextId, customerId |-> l.cust,
                                   type |-> l.txType, debit |-> l.debit,
                                   credit |-> l.credit,
                                   balance |-> l.newBalance,
                                   date |-> clock, referenceId |-> l.ref])
            /\ nextId' = nextId + 1
            /\ clock' = clock + 1
            /\ pc' = [pc EXCEPT ![p] = "ucb_getById"]
            /\ loc' = [loc EXCEPT ![p] =
                         [l EXCEPT !.ucbAmount =
                                       RecordedAmount(l.debit, l.credit),
                                   !.ucbCaller = "createTransaction"]]
       ELSE /\ Failed(p, l)
            /\ UNCHANGED <<transactions, nextId, clock>>
    /\ UNCHANGED <<customers, invoices, payments, ops, recorded>>
    /\ UNCHANGED auth

(* where updateCustomerBalance returns to *)
AfterUcb(l) ==
    IF l.ucbCaller = "createTransaction" THEN "ct_return" ELSE "ct_getById"

ReturnFromUcb(l, balance) ==
    IF l.ucbCaller = "createTransaction"
    THEN [l EXCEPT !.ctState = "returned"]
    ELSE [l EXCEPT !.ctState = "called",
                   !.ctBal0 = balance,
                   !.ctLen0 = Len(transactions)]

(* updateCustomerBalance: customersService.getById *)
UcbGetById(p, ok) ==
    /\ pc[p] = "ucb_getById"
    /\ Charge(ok)
    /\ LET l == loc[p] IN
       IF ~ok THEN Failed(p, l)
       ELSE IF ~Exists(customers, l.cust)
       THEN /\ pc' = [pc EXCEPT ![p] = AfterUcb(l)]
            /\ loc' = [loc EXCEPT ![p] = ReturnFromUcb(l, 0)]
       ELSE /\ pc' = [pc EXCEPT ![p] = "ucb_update"]
            /\ loc' = [loc EXCEPT ![p] =
                         [l EXCEPT !.readBalance = customers[l.cust].balance]]
    /\ UNCHANGED <<customers, invoices, payments, transactions, nextId,
                   clock, ops, recorded>>
    /\ UNCHANGED auth

(* updateCustomerBalance: customersService.update(id, {balance}) *)
UcbUpdate(p, ok) ==
    /\ pc[p] = "ucb_update"
    /\ Charge(ok)
    /\ LET l == loc[p] IN
       IF ok /\ Exists(customers, l.cust)
       THEN /\ customers' = [customers EXCEPT ![l.cust].balance =
                                UpdatedBalance(l.readBalance, l.ucbAmount)]
            /\ pc' = [pc EXCEPT ![p] = AfterUcb(l)]
            /\ loc' = [loc EXCEPT ![p] =
                         ReturnFromUcb(l, UpdatedBalance(l.readBalance,
                                                         l.ucbAmount))]
       ELSE /\ Failed(p, l)
            /\ UNCHANGED customers
    /\ UNCHANGED <<invoices, payments, transactions, nextId, clock, ops,
                   recorded>>
    /\ UNCHANGED auth

(* createTransaction has returned to its caller *)
CtReturn(p) ==
    /\ pc[p] = "ct_return"
    /\ IF loc[p].op = "payment"
       THEN /\ Finish(p, loc[p], "success")
            /\ recorded' = Completed(loc[p])
       ELSE /\ pc' = [pc EXCEPT ![p] = "inv_create"]
            /\ UNCHANGED <<loc, recorded>>
    /\ UNCHANGED <<customers, invoices, payments, transactions, nextId,
                   clock, failures, ops>>
    /\ UNCHANGED auth

(* the notification is dismissed, or the form is cancelled *)
Close(p) ==
    /\ pc[p] \in FormPcs \cup {"done"}
    /\ pc' = [pc EXCEPT ![p] = "idle"]
    /\ loc' = [loc EXCEPT ![p] = IdleLoc]
    /\ UNCHANGED <<customers, invoices, payments, transactions, nextId,
                   clock, failures, ops, recorded>>
    /\ UNCHANGED auth

(* ---------------------------- Sales: invoices -------------------------- *)
InvoiceFormPcs == {"inv_form", "einv_form"}

(* the create dialog mounts InvoiceForm, elapsed ms after the last event:  *)
(* generateOrderNumber; the operator selects a customer of the loaded list *)
OpenInvoiceForm(p, c, elapsed) ==
    /\ pc[p] = "idle"
    /\ Begin
    /\ Exists(customers, c)
    /\ pc' = [pc EXCEPT ![p] = "inv_form"]
    /\ loc' = [loc EXCEPT ![p] =
                 [IdleLoc EXCEPT !.op = "invoice", !.cust = c,
                                 !.snapFound = TRUE,
                                 !.snapRate = customers[c].discountRate,
                                 !.inv = [NoInvoice EXCEPT
                                     !.orderNumber =
                                         generateOrderNumber(clock + elapsed),
                                     !.customerId = c]]]
    /\ clock' = clock + elapsed
    /\ UNCHANGED <<customers, invoices, payments, transactions, nextId,
                   failures, recorded>>
    /\ UNCHANGED auth

(* the lines of an open invoice form *)
SetItems(p, items) ==
    /\ pc[p] \in InvoiceFormPcs
    /\ loc' = [loc EXCEPT ![p].inv.items = items]
    /\ UNCHANGED <<customers, invoices, payments, transactions, nextId,
                   clock, pc, failures, ops, recorded>>
    /\ UNCHANGED auth

addItem(p) == SetItems(p, AddedItem(loc[p].inv.items))

removeItem(p, index) ==
    /\ index \in 1..Len(loc[p].inv.items)
    /\ SetItems(p, RemovedItem(loc[p].inv.items, index))

updateItem(p, index, field, value) ==
    /\ index \in 1..Len(loc[p].inv.items)
    /\ SetItems(p, UpdatedItems(loc[p].inv.items, index, field, value))

(* the invoice the form submits: calculations over the items and the       *)
(* selected customer's discount rate                                       *)
InvoiceData(l, items, type, status) ==
    LET rate == IF l.snapFound THEN l.snapRate ELSE 0
        sub == Subtotal(items)
    IN [l.inv EXCEPT !.items = items, !.subtotal = sub,
                     !.discountRate = rate,
                     !.discountAmount = DiscountAmount(sub, rate),
                     !.total = InvoiceTotal(sub, rate),
                     !.status = status, !.type = type]

(* InvoiceForm.handleSubmit: the arguments of updateCustomerBalance and    *)
(* createTransaction                                                       *)
Posting(l, data) ==
    [l EXCEPT !.inv = data, !.amount = data.total,
              !.ucbAmount = TransactionAmount(data.type, data.total),
              !.ucbCaller = "InvoiceForm",
              !.txType = InvoiceTxType(data.type),
              !.debit = InvoiceDebit(data.type, data.total),
              !.credit = InvoiceCredit(data.type, data.total),
              !.ref = [kind |-> "orderNumber",
                       day |-> data.orderNumber.day,
                       n |-> data.orderNumber.time]]

(* InvoiceForm.handleSubmit without initialData: updateCustomerBalance,    *)
(* then createTransaction, then onSubmit                                   *)
SubmitInvoice(p, selected, items, type, status) ==
    /\ pc[p] = "inv_form"
    /\ LET data == InvoiceData(loc[p], items, type, status)
           l == [Posting(loc[p], data) EXCEPT
                    !.selected = selected,
                    !.bal0 = BalanceOf(loc[p].cust),
                    !.len0 = Len(transactions)]
       IN IF ~ValidInvoice(selected, items)
          THEN Finish(p, l, "invalid")
          ELSE /\ pc' = [pc EXCEPT ![p] = IF PostsToLedger(FALSE)
                                          THEN "ucb_getById"
                                          ELSE "inv_create"]
               /\ loc' = [loc EXCEPT ![p] = l]
    /\ UNCHANGED <<customers, invoices, payments, transactions, nextId,
                   clock, failures, ops, recorded>>
    /\ UNCHANGED auth

(* onSubmit(invoiceData) after the recording: Sales.handleCreateInvoice,   *)
(* invoicesService.create, or Sales.handleEditInvoice                      *)
CreateInvoice(p, ok) ==
    /\ pc[p] = "inv_create"
    /\ Charge(ok)
    /\ LET l == loc[p] IN
       IF ~ok \/ (l.op = "editInvoice" /\ ~Exists(invoices, l.target))
       THEN /\ Finish(p, l, "error")
            /\ UNCHANGED <<invoices, nextId, recorded>>
       ELSE IF l.op = "editInvoice"
       THEN /\ invoices' = [invoices EXCEPT ![l.target] = l.inv]
            /\ Finish(p, l, "success")
            /\ recorded' = Completed(l)
            /\ UNCHANGED nextId
       ELSE /\ invoices' = CreateDoc(invoices, nextId, l.inv)
            /\ nextId' = nextId + 1
            /\ Finish(p, l, "success")
            /\ recorded' = Completed(l)
    /\ UNCHANGED <<customers, payments, transactions, clock, ops>>
    /\ UNCHANGED auth

(* the edit dialog mounts InvoiceForm with initialData; the operator keeps *)
(* the invoice's customer or selects another of the loaded list            *)
OpenEditInvoice(p, i, c) ==
    /\ pc[p] = "idle"
    /\ Begin
    /\ Exists(invoices, i)
    /\ c = invoices[i].customerId \/ Exists(customers, c)
    /\ pc' = [pc EXCEPT ![p] = "einv_form"]
    /\ loc' = [loc EXCEPT ![p] =
                 [IdleLoc EXCEPT
                     !.op = "editInvoice", !.target = i, !.cust = c,
                     !.inv0 = invoices[i],
                     !.inv = [invoices[i] EXCEPT !.customerId = c],
                     !.snapFound = Exists(customers, c),
                     !.snapRate = IF Exists(customers, c)
                                  THEN customers[c].discountRate ELSE 0]]
    /\ UNCHANGED <<customers, invoices, payments, transactions, nextId,
                   clock, failures, recorded>>
    /\ UNCHANGED auth

(* InvoiceForm.handleSubmit with initialData, Sales.handleEditInvoice:     *)
(* invoicesService.update(id, invoiceData)                                 *)
SubmitEditInvoice(p, items, type, status, ok) ==
    /\ pc[p] = "einv_form"
    /\ LET data == InvoiceData(loc[p], items, type, status)
           l == [loc[p] EXCEPT !.inv = data, !.selected = TRUE,
                               !.bal0 = BalanceOf(loc[p].cust),
                               !.len0 = Len(transactions)]
       IN IF ~ValidInvoice(TRUE, items) \/ ~l.snapFound
          THEN /\ Finish(p, l, "invalid")
               /\ UNCHANGED <<invoices, failures>>
          ELSE IF PostsToLedger(TRUE)
          THEN /\ pc' = [pc EXCEPT ![p] = "ucb_getById"]
               /\ loc' = [loc EXCEPT ![p] = Posting(l, data)]
               /\ UNCHANGED <<invoices, failures>>
          ELSE IF ok /\ Exists(invoices, l.target)
          THEN /\ invoices' = [invoices EXCEPT ![l.target] = data]
               /\ Finish(p, l, "success")
               /\ UNCHANGED failures
          ELSE /\ Finish(p, l, "error")
               /\ Charge(ok)
               /\ UNCHANGED invoices
    /\ UNCHANGED <<customers, payments, transactions, nextId, clock, ops,
                   recorded>>
    /\ UNCHANGED auth

(* the Delete item of an invoice's menu, rendered under                    *)
(* permissions?.canDelete: handleDeleteInvoice shows the confirm dialog    *)
askDeleteInvoice(p, i) ==
    /\ pc[p] = "idle"
    /\ Begin
    /\ Exists(invoices, i)
    /\ CanDelete(auth[p].user, "sales")
    /\ pc' = [pc EXCEPT ![p] = "del_confirm"]
    /\ loc' = [loc EXCEPT ![p] =
                 [IdleLoc EXCEPT !.op = "deleteInvoice", !.target = i,
                                 !.cust = invoices[i].customerId,
                                 !.inv = invoices[i]]]
    /\ UNCHANGED <<customers, invoices, payments, transactions, nextId,
                   clock, failures, recorded>>
    /\ Click(p)

(* Sales.handleDeleteInvoice, confirmed: invoicesService.delete(id) *)
DeleteInvoice(p, ok) ==
    /\ pc[p] = "del_confirm"
    /\ loc[p].op = "deleteInvoice"
    /\ Charge(ok)
    /\ LET i == loc[p].target
           l == [loc[p] EXCEPT !.bal0 = BalanceOf(loc[p].cust),
                               !.len0 = Len(transactions)]
       IN IF ok
          THEN /\ invoices' = DeleteDoc(invoices, i)
               /\ Finish(p, l, "success")
          ELSE /\ Finish(p, l, "error")
               /\ UNCHANGED invoices
    /\ UNCHANGED <<customers, payments, transactions, nextId, clock, ops,
                   recorded>>
    /\ Click(p)

(* --------------------------- Customers page ---------------------------- *)
(* CustomerForm.handleSubmit without initialData, handleCreateCustomer:    *)
(* customersService.create(customerData), the balance as typed             *)
CreateCustomer(p, valid, balance, rate, ok) ==
    /\ pc[p] = "idle"
    /\ Begin
    /\ LET l == [IdleLoc EXCEPT !.op = "createCustomer", !.target = nextId,
                                !.filled = valid, !.rate = rate,
                                !.len0 = Len(transactions)]
       IN IF ~ValidCustomer(valid, rate)
          THEN /\ Finish(p, l, "invalid")
               /\ UNCHANGED <<customers, nextId, failures>>
          ELSE IF ok
          THEN /\ customers' = CreateDoc(customers, nextId,
                                  [balance |-> balance, discountRate |-> rate])
               /\ nextId' = nextId + 1
               /\ Finish(p, l, "success")
               /\ UNCHANGED failures
          ELSE /\ Finish(p, l, "error")
               /\ Charge(ok)
               /\ UNCHANGED <<customers, nextId>>
    /\ UNCHANGED <<invoices, payments, transactions, clock, recorded>>
    /\ UNCHANGED auth

(* the edit dialog mounts CustomerForm with initialData *)
OpenEditCustomer(p, c) ==
    /\ pc[p] = "idle"
    /\ Begin
    /\ Exists(customers, c)
    /\ pc' = [pc EXCEPT ![p] = "cust_form"]
    /\ loc' = [loc EXCEPT ![p] =
                 [IdleLoc EXCEPT !.op = "editCustomer", !.cust = c,
                                 !.target = c, !.snapFound = TRUE,
                                 !.snapBalance = customers[c].balance,
                                 !.snapRate = customers[c].discountRate]]
    /\ UNCHANGED <<customers, invoices, payments, transactions, nextId,
                   clock, failures, recorded>>
    /\ UNCHANGED auth

(* CustomerForm.handleSubmit with initialData, handleEditCustomer:         *)
(* customersService.update(id, {...formData}), balance field included      *)
SubmitEditCustomer(p, valid, rate, ok) ==
    /\ pc[p] = "cust_form"
    /\ LET l == [loc[p] EXCEPT !.filled = valid, !.rate = rate,
                               !.bal0 = BalanceOf(loc[p].cust),
                               !.len0 = Len(transactions)]
       IN IF ~ValidCustomer(valid, rate)
          THEN /\ Finish(p, l, "invalid")
               /\ UNCHANGED <<customers, failures>>
          ELSE IF ok /\ Exists(customers, l.cust)
          THEN /\ customers' = [customers EXCEPT ![l.cust] =
                                   [balance |-> l.snapBalance,
                                    discountRate |-> rate]]
               /\ Finish(p, l, "success")
               /\ UNCHANGED failures
          ELSE /\ Finish(p, l, "error")
               /\ Charge(ok)
               /\ UNCHANGED customers
    /\ UNCHANGED <<invoices, payments, transactions, nextId, clock, ops,
                   recorded>>
    /\ UNCHANGED auth

(* the Delete item of a customer's menu, rendered under                    *)
(* permissions?.canDelete: handleDeleteCustomer shows the confirm dialog   *)
askDeleteCustomer(p, c) ==
    /\ pc[p] = "idle"
    /\ Begin
    /\ Exists(customers, c)
    /\ CanDelete(auth[p].user, "customers")
    /\ pc' = [pc EXCEPT ![p] = "del_confirm"]
    /\ loc' = [loc EXCEPT ![p] =
                 [IdleLoc EXCEPT !.op = "deleteCustomer", !.target = c,
                                 !.cust = c]]
    /\ UNCHANGED <<customers, invoices, payments, transactions, nextId,
                   clock, failures, recorded>>
    /\ Click(p)

(* Customers.handleDeleteCustomer, confirmed: customersService.delete(id) *)
DeleteCustomer(p, ok) ==
    /\ pc[p] = "del_confirm"
    /\ loc[p].op = "deleteCustomer"
    /\ Charge(ok)
    /\ LET c == loc[p].target
           l == [loc[p] EXCEPT !.bal0 = BalanceOf(loc[p].target),
                               !.len0 = Len(transactions)]
       IN IF ok
          THEN /\ customers' = DeleteDoc(customers, c)
               /\ Finish(p, l, "success")
          ELSE /\ Finish(p, l, "error")
               /\ UNCHANGED customers
    /\ UNCHANGED <<invoices, payments, transactions, nextId, clock, ops,
                   recorded>>
    /\ Click(p)

(* ------------------------------ scheduling ----------------------------- *)
(* handlers run one at a time: while a handler of one session is between   *)
(* two awaits, or shows its result, the other session does not act         *)
Busy(q) == pc[q] \in HandlerPcs \cup {"done"}

(* the second session submits or cancels a form before the first acts again *)
(* and begins an operation only while a form of the first is open          *)
Serial(p) ==
    /\ \A q \in Procs \ {p} : ~Busy(q)
    /\ pc[2] \in FormPcs => p = 2
    /\ (p = 2 /\ pc[2] = "idle") => pc[1] \in FormPcs

Choices == DOMAIN customers \ Bystanders

(* the ledger model lets a millisecond pass before a form is mounted *)
Elapsed == {1}

Next ==
    \/ \E p \in Procs, c \in Choices : Serial(p) /\ OpenPaymentForm(p, c)
    \/ \E p \in Procs, s \in BOOLEAN, a \in PayAmounts \cup {0},
          t \in PaymentTypes : Serial(p) /\ SubmitPayment(p, s, a, t)
    \/ \E p \in Procs, ok \in CallOutcomes : Serial(p) /\ CreatePayment(p, ok)
    \/ \E p \in Procs, ok \in CallOutcomes : Serial(p) /\ CtGetById(p, ok)
    \/ \E p \in Procs, ok \in CallOutcomes : Serial(p) /\ CtCreate(p, ok)
    \/ \E p \in Procs, ok \in CallOutcomes : Serial(p) /\ UcbGetById(p, ok)
    \/ \E p \in Procs, ok \in CallOutcomes : Serial(p) /\ UcbUpdate(p, ok)
    \/ \E p \in Procs : Serial(p) /\ CtReturn(p)
    \/ \E p \in Procs, c \in Choices, d \in Elapsed :
          Serial(p) /\ OpenInvoiceForm(p, c, d)
    \/ \E p \in Procs, s \in BOOLEAN, items \in ItemLists,
          t \in InvoiceTypes, st \in StatusChoices :
          Serial(p) /\ SubmitInvoice(p, s, items, t, st)
    \/ \E p \in Procs, ok \in CallOutcomes : Serial(p) /\ CreateInvoice(p, ok)
    \/ \E p \in Procs, i \in DOMAIN invoices :
          \E c \in Choices \cup {invoices[i].customerId} :
              Serial(p) /\ OpenEditInvoice(p, i, c)
    \/ \E p \in Procs, t \in InvoiceTypes, st \in StatusChoices,
          ok \in CallOutcomes :
          \E items \in {<<>>, loc[p].inv.items} :
              Serial(p) /\ SubmitEditInvoice(p, items, t, st, ok)
    \/ \E p \in Procs, i \in DOMAIN invoices :
          Serial(p) /\ askDeleteInvoice(p, i)
    \/ \E p \in Procs, ok \in CallOutcomes : Serial(p) /\ DeleteInvoice(p, ok)
    \/ \E p \in Procs, v \in BOOLEAN, b \in OpeningBalances,
          r \in DiscountRates \cup {InvalidRate}, ok \in CallOutcomes :
          Serial(p) /\ CreateCustomer(p, v, b, r, ok)
    \/ \E p \in Procs, c \in Choices : Serial(p) /\ OpenEditCustomer(p, c)
    \/ \E p \in Procs, v \in BOOLEAN, r \in DiscountRates \cup {InvalidRate},
          ok \in CallOutcomes : Serial(p) /\ SubmitEditCustomer(p, v, r, ok)
    \/ \E p \in Procs, c \in Choices : Serial(p) /\ askDeleteCustomer(p, c)
    \/ \E p \in Procs, ok \in CallOutcomes :
          Serial(p) /\ DeleteCustomer(p, ok)
    \/ \E p \in Procs : Serial(p) /\ Close(p)

Spec == Init /\ [][Next]_vars

(* ------------------------- the invoice form alone ---------------------- *)
(* one session fills in one invoice form, new or edit, line by line, and   *)
(* submits it; no call is rejected                                         *)
MaxItems == 1

ItemFields == {"productId", "quantity", "unitPrice"}

FieldValues(field) ==
    IF field = "productId" THEN {1}
    ELSE IF field = "quantity" THEN {2}
    ELSE {15000}

FormNext ==
    \/ \E c \in DOMAIN customers, d \in Elapsed : OpenInvoiceForm(1, c, d)
    \/ \E i \in DOMAIN invoices, c \in DOMAIN customers :
          OpenEditInvoice(1, i, c)
    \/ Len(loc[1].inv.items) < MaxItems /\ addItem(1)
    \/ \E index \in 1..MaxItems : removeItem(1, index)
    \/ \E index \in 1..MaxItems, field \in ItemFields :
          \E value \in FieldValues(field) : updateItem(1, index, field, value)
    \/ \E t \in InvoiceTypes, st \in StatusChoices :
          SubmitInvoice(1, TRUE, loc[1].inv.items, t, st)
    \/ \E t \in InvoiceTypes, st \in StatusChoices :
          SubmitEditInvoice(1, loc[1].inv.items, t, st, TRUE)
    \/ UcbGetById(1, TRUE)
    \/ UcbUpdate(1, TRUE)
    \/ CtGetById(1, TRUE)
    \/ CtCreate(1, TRUE)
    \/ CtReturn(1)
    \/ CreateInvoice(1, TRUE)

FormSpec == Init /\ [][FormNext]_vars

(* --------------------------- order numbers ----------------------------- *)
(* invoices are created by the two sessions; a form is mounted in the      *)
(* millisecond of the last event, the next one, or TimeModulus ms later    *)
OrderElapsed == {0, 1, TimeModulus}

OrderNext ==
    \/ \E p \in Procs, c \in Choices, d \in OrderElapsed :
          Serial(p) /\ OpenInvoiceForm(p, c, d)
    \/ \E p \in Procs, items \in ItemLists, t \in InvoiceTypes :
          Serial(p) /\ SubmitInvoice(p, TRUE, items, t, "pending")
    \/ \E p \in Procs : Serial(p) /\ UcbGetById(p, TRUE)
    \/ \E p \in Procs : Serial(p) /\ UcbUpdate(p, TRUE)
    \/ \E p \in Procs : Serial(p) /\ CtGetById(p, TRUE)
    \/ \E p \in Procs : Serial(p) /\ CtCreate(p, TRUE)
    \/ \E p \in Procs : Serial(p) /\ CtReturn(p)
    \/ \E p \in Procs : Serial(p) /\ CreateInvoice(p, TRUE)
    \/ \E p \in Procs : Serial(p) /\ Close(p)

OrderSpec == Init /\ [][OrderNext]_vars

(* ------------------------ overlapping recordings ----------------------- *)
(* the two sessions record payments and nothing orders their awaited calls *)
RaceNext ==
    \/ \E p \in Procs, c \in Choices : OpenPaymentForm(p, c)
    \/ \E p \in Procs, a \in PayAmounts, t \in PaymentTypes :
          SubmitPayment(p, TRUE, a, t)
    \/ \E p \in Procs : CreatePayment(p, TRUE)
    \/ \E p \in Procs : CtGetById(p, TRUE)
    \/ \E p \in Procs : CtCreate(p, TRUE)
    \/ \E p \in Procs : UcbGetById(p, TRUE)
    \/ \E p \in Procs : UcbUpdate(p, TRUE)
    \/ \E p \in Procs : CtReturn(p)
    \/ \E p \in Procs : Close(p)

RaceSpec == Init /\ [][RaceNext]_vars

(* --------------------------- customer statement ------------------------ *)
(* Array.prototype.sort by date, ascending and stable *)
RECURSIVE InsertByDate(_, _)
InsertByDate(sorted, t) ==
    IF sorted = <<>> THEN <<t>>
    ELSE IF Head(sorted).date <= t.date
         THEN <<Head(sorted)>> \o InsertByDate(Tail(sorted), t)
         ELSE <<t>> \o sorted

RECURSIVE SortByDate(_)
SortByDate(txns) ==
    IF txns = <<>> THEN <<>>
    ELSE InsertByDate(SortByDate(SubSeq(txns, 1, Len(txns) - 1)),
                      txns[Len(txns)])

OfCustomer(txns, c) ==
    IF txns = <<>> THEN <<>>
    ELSE SelectSeq(txns, LAMBDA t : t.customerId = c)

(* CustomerStatement.loadTransactions *)
loadTransactions(c) == SortByDate(OfCustomer(transactions, c))

(* -------------------------------- strings ------------------------------ *)
(* a string of fixed-width, zero-padded groups is the sequence of its      *)
(* groups: '' is <<>>, 'YYYY-MM-DD' is <<day>> and an ISO timestamp        *)
(* 'YYYY-MM-DDTHH:MM:SS.sssZ' is <<day, msOfDay>>; < on strings compares   *)
(* position by position and a proper prefix is the smaller string          *)
RECURSIVE StrLess(_, _)
StrLess(a, b) ==
    IF b = <<>> THEN FALSE
    ELSE IF a = <<>> THEN TRUE
    ELSE IF Head(a) # Head(b) THEN Head(a) < Head(b)
    ELSE StrLess(Tail(a), Tail(b))

StrLeqMutant(a, b) == StrLess(a, b)

StrLeq(a, b) == a = b \/ StrLess(a, b)

(* new Date(ms).toISOString() *)
toISOString(ms) == <<ms \div MsPerDay, ms % MsPerDay>>

(* -------------------------------- reports ------------------------------ *)
NoFilters ==
    [startDate |-> <<>>, endDate |-> <<>>, customerId |-> NoId,
     productId |-> NoId, category |-> "", paymentMethod |-> "",
     status |-> ""]

(* where(field, '==', value): a document without the field does not match *)
FieldIs(row, field, value) == field \in DOMAIN row /\ row[field] = value

(* getFilteredData: the constraints pushed for the filters that are set *)
Matches(row, filters) ==
    /\ filters.startDate # <<>> =>
          "date" \in DOMAIN row /\ StrLeq(filters.startDate, row.date)
    /\ filters.endDate # <<>> =>
          "date" \in DOMAIN row /\ StrLeq(row.date, filters.endDate)
    /\ filters.customerId # NoId =>
          FieldIs(row, "customerId", filters.customerId)
    /\ filters.productId # NoId =>
          FieldIs(row, "productId", filters.productId)
    /\ filters.category # "" => FieldIs(row, "category", filters.category)
    /\ filters.paymentMethod # "" =>
          FieldIs(row, "paymentMethod", filters.paymentMethod)
    /\ filters.status # "" => FieldIs(row, "status", filters.status)

Largest(ids) == CHOOSE m \in ids : \A k \in ids : k <= m

(* orderBy('createdAt', 'desc'): the latest document first *)
RECURSIVE Descending(_, _)
Descending(coll, ids) ==
    IF ids = {} THEN <<>>
    ELSE <<[id |-> Largest(ids), row |-> coll[Largest(ids)]]>> \o
         Descending(coll, ids \ {Largest(ids)})

getFilteredData(coll, filters) ==
    Descending(coll, {k \in DOMAIN coll : Matches(coll[k], filters)})

(* Reports.generateReport: the collection behind a per-domain report *)
ReportTypes == {"summary", "sales", "customers", "inventory", "payments"}

ServiceOf(reportType) ==
    CASE reportType = "sales" -> invoices
      [] reportType = "customers" -> customers
      [] reportType = "inventory" -> DemoProducts
      [] reportType = "payments" -> payments

RECURSIVE SumOver(_, _, _)
SumOver(coll, ids, field) ==
    IF ids = {} THEN 0
    ELSE LET k == CHOOSE x \in ids : TRUE
         IN coll[k][field] + SumOver(coll, ids \ {k}, field)

(* Reports.generateSummaryReport: invoices and payments of the period *)
InPeriod(coll, filters) ==
    {k \in DOMAIN coll :
        /\ filters.startDate # <<>> => StrLeq(filters.startDate, coll[k].date)
        /\ filters.endDate # <<>> => StrLeq(coll[k].date, filters.endDate)}

generateSummaryReport(filters) ==
    LET filteredInvoices == InPeriod(invoices, filters)
        filteredPayments == InPeriod(payments, filters)
        pending == {k \in filteredInvoices : invoices[k].status = "pending"}
    IN <<[metric |-> "Total Sales", value |-> Cardinality(filteredInvoices),
          amount |-> SumOver(invoices, filteredInvoices, "total")],
         [metric |-> "Total Customers",
          value |-> Cardinality(DOMAIN customers), amount |-> 0],
         [metric |-> "Total Products",
          value |-> Cardinality(DOMAIN DemoProducts), amount |-> 0],
         [metric |-> "Total Payments",
          value |-> Cardinality(filteredPayments),
          amount |-> SumOver(payments, filteredPayments, "amount")],
         [metric |-> "Pending Orders", value |-> Cardinality(pending),
          amount |-> SumOver(invoices, pending, "total")]>>

Shown(p, kind, filters, data) ==
    Finish(p, [IdleLoc EXCEPT !.op = "view",
                              !.view = [kind |-> kind, filters |-> filters,
                                        data |-> data]], "success")

generateReportMutant(p, reportType, filters) ==
    /\ pc[p] = "idle"
    /\ Shown(p, reportType, filters, <<>>)
    /\ payments' = DeleteDoc(payments, Largest(DOMAIN payments))
    /\ UNCHANGED <<customers, invoices, transactions, nextId, clock,
                   failures, ops, recorded>>
    /\ UNCHANGED auth

(* Reports.generateReport *)
generateReport(p, reportType, filters) ==
    /\ pc[p] = "idle"
    /\ Shown(p, reportType, filters,
             IF reportType = "summary" THEN generateSummaryReport(filters)
             ELSE getFilteredData(ServiceOf(reportType), filters))
    /\ UNCHANGED <<customers, invoices, payments, transactions, nextId,
                   clock, failures, ops, recorded>>
    /\ UNCHANGED auth

(* ------------------------------- dashboard ----------------------------- *)
(* getAll(): the documents in the order of their ids *)
RECURSIVE Ascending(_, _)
Ascending(coll, ids) ==
    IF ids = {} THEN <<>>
    ELSE Ascending(coll, ids \ {Largest(ids)}) \o <<coll[Largest(ids)]>>

RECURSIVE AllItems(_)
AllItems(list) ==
    IF list = <<>> THEN <<>> ELSE Head(list).items \o AllItems(Tail(list))

(* productSales[item.productId]: created at the first line of a product,   *)
(* then quantity and revenue are added to                                  *)
RECURSIVE AddSale(_, _)
AddSale(sales, item) ==
    IF sales = <<>>
    THEN <<[productId |-> item.productId, quantity |-> item.quantity,
            revenue |-> item.total]>>
    ELSE IF Head(sales).productId = item.productId
         THEN <<[Head(sales) EXCEPT !.quantity = @ + item.quantity,
                                    !.revenue = @ + item.total]>> \o
              Tail(sales)
         ELSE <<Head(sales)>> \o AddSale(Tail(sales), item)

(* Object.values(productSales): the entries in insertion order *)
RECURSIVE ProductSales(_)
ProductSales(items) ==
    IF items = <<>> THEN <<>>
    ELSE AddSale(ProductSales(SubSeq(items, 1, Len(items) - 1)),
                 items[Len(items)])

RECURSIVE InsertByRevenueMutant(_, _)
InsertByRevenueMutant(sorted, s) ==
    IF sorted = <<>> THEN <<s>>
    ELSE IF Head(sorted).revenue > s.revenue
         THEN <<Head(sorted)>> \o InsertByRevenueMutant(Tail(sorted), s)
         ELSE <<s>> \o sorted

(* sort((a, b) => b.revenue - a.revenue): descending and stable *)
RECURSIVE InsertByRevenue(_, _)
InsertByRevenue(sorted, s) ==
    IF sorted = <<>> THEN <<s>>
    ELSE IF Head(sorted).revenue >= s.revenue
         THEN <<Head(sorted)>> \o InsertByRevenue(Tail(sorted), s)
         ELSE <<s>> \o sorted

RECURSIVE SortByRevenue(_)
SortByRevenue(sales) ==
    IF sales = <<>> THEN <<>>
    ELSE InsertByRevenue(SortByRevenue(SubSeq(sales, 1, Len(sales) - 1)),
                         sales[Len(sales)])

TopCount == 5

TopSelling(list) ==
    LET sorted == SortByRevenue(ProductSales(AllItems(list)))
    IN SubSeq(sorted, 1, IF Len(sorted) < TopCount THEN Len(sorted)
                         ELSE TopCount)

(* Dashboard.loadDashboardData *)
loadDashboardData(p) ==
    /\ pc[p] = "idle"
    /\ Shown(p, "dashboard", NoFilters,
             TopSelling(Ascending(invoices, DOMAIN invoices)))
    /\ UNCHANGED <<customers, invoices, payments, transactions, nextId,
                   clock, failures, ops, recorded>>
    /\ UNCHANGED auth

(* one page is looked at at a time *)
Alone(p) == \A q \in Procs \ {p} : pc[q] = "idle"

(* the dashboard over invoices of seven lines: six products, one of them  *)
(* the blank product of a line left unselected, in some order of first     *)
(* appearance, and a further line of a product already sold                *)
ProductIds == DOMAIN DemoProducts \cup {NoId}
LineTotals == {5000, 10000}
Orders == {<<1, 2, 3, 4, 5, NoId>>, <<NoId, 5, 4, 3, 2, 1>>,
           <<3, 1, NoId, 5, 2, 4>>}

Line(productId, total) ==
    [productId |-> productId, quantity |-> 1, unitPrice |-> total,
     total |-> total]

SaleOf(c, n, items) ==
    [NoInvoice EXCEPT
        !.orderNumber = [day |-> -1, time |-> n], !.customerId = c,
        !.items = items, !.subtotal = Subtotal(items),
        !.discountRate = DemoCustomers[c].discountRate,
        !.discountAmount =
            DiscountAmount(Subtotal(items), DemoCustomers[c].discountRate),
        !.total = InvoiceTotal(Subtotal(items),
                               DemoCustomers[c].discountRate)]

DashInit ==
    /\ customers = DemoCustomers
    /\ \E order \in Orders, totals \in [1..6 -> LineTotals],
          again \in ProductIds :
          LET lines == [k \in 1..6 |-> Line(order[k], totals[k])]
          IN invoices =
                 (1 :> SaleOf(1, 1, SubSeq(lines, 1, 3))) @@
                 (2 :> SaleOf(2, 2, SubSeq(lines, 4, 6) \o
                                    <<Line(again, 5000)>>))
    /\ payments = DemoPayments
    /\ transactions = <<>>
    /\ nextId = FirstFreeId
    /\ clock = 0
    /\ pc = [p \in Procs |-> "idle"]
    /\ loc = [p \in Procs |-> IdleLoc]
    /\ failures = 0
    /\ ops = 0
    /\ recorded = {}
    /\ auth = [p \in Procs |-> SignedIn("admin")]

DashNext ==
    \/ \E p \in Procs : Alone(p) /\ loadDashboardData(p)
    \/ \E p \in Procs : Close(p)

DashSpec == DashInit /\ [][DashNext]_vars

(* --------------------------- statement filter -------------------------- *)
(* CustomerStatement.filterTransactions *)
filterTransactions(txns, startDate, endDate) ==
    LET from == IF startDate # <<>>
                THEN SelectSeq(txns, LAMBDA t :
                         StrLeq(startDate, toISOString(t.date)))
                ELSE txns
    IN IF endDate # <<>>
       THEN SelectSeq(from, LAMBDA t : StrLeq(toISOString(t.date), endDate))
       ELSE from

(* the statement dialog of a customer with a date range selected *)
OpenStatement(p, c, startDate, endDate) ==
    /\ pc[p] = "idle"
    /\ Exists(customers, c)
    /\ Finish(p, [IdleLoc EXCEPT
                     !.op = "view", !.cust = c,
                     !.view = [kind |-> "statement",
                               filters |-> [NoFilters EXCEPT
                                               !.startDate = startDate,
                                               !.endDate = endDate],
                               data |-> filterTransactions(
                                            loadTransactions(c),
                                            startDate, endDate)]],
              "success")
    /\ UNCHANGED <<customers, invoices, payments, transactions, nextId,
                   clock, failures, ops, recorded>>
    /\ UNCHANGED auth

(* ---------------------------- the read path ---------------------------- *)
ReportDays == 1..3
SeedDay == 2
TimesOfDay == {0, MsPerDay - 1}
Ranges == {<<>>, <<SeedDay>>}

(* the seed invoices and payment carry their date and payment method; a    *)
(* second payment and two recordings for cust-001 have been made           *)
ReportInit ==
    /\ customers = DemoCustomers
    /\ \E d \in ReportDays :
          invoices =
              (1 :> (DemoInvoices[1] @@
                     [date |-> <<d>>, paymentMethod |-> "Cash"])) @@
              (2 :> (DemoInvoices[2] @@
                     [date |-> <<SeedDay>>,
                      paymentMethod |-> "Bank Transfer"]))
    /\ \E d \in ReportDays :
          payments =
              (1 :> (DemoPayments[1] @@
                     [date |-> <<SeedDay>>, method |-> "Cash"])) @@
              (2 :> [customerId |-> 2, amount |-> 28500, type |-> "payment",
                     date |-> <<d>>, method |-> "Bank Transfer"])
    /\ \E d \in ReportDays, t1, t2 \in TimesOfDay :
          transactions =
              <<[customerId |-> 1, type |-> "payment", debit |-> 0,
                 credit |-> 28500, balance |-> -3500,
                 date |-> SeedDay * MsPerDay + t1, referenceId |-> NoRef],
                [customerId |-> 1, type |-> "payment", debit |-> 0,
                 credit |-> 28500, balance |-> -32000,
                 date |-> d * MsPerDay + t2, referenceId |-> NoRef]>>
    /\ nextId = FirstFreeId
    /\ clock = 0
    /\ pc = [p \in Procs |-> "idle"]
    /\ loc = [p \in Procs |-> IdleLoc]
    /\ failures = 0
    /\ ops = 0
    /\ recorded = {}
    /\ auth = [p \in Procs |-> SignedIn("admin")]

FilterChoices ==
    {[NoFilters EXCEPT !.startDate = s, !.endDate = e, !.customerId = c,
                       !.paymentMethod = m, !.status = st] :
        s \in Ranges, e \in Ranges, c \in {NoId, 1},
        m \in {"", "Cash"}, st \in {"", "pending"}}

ReportNext ==
    \/ \E p \in Procs, type \in ReportTypes, filters \in FilterChoices :
          Alone(p) /\ generateReport(p, type, filters)
    \/ \E p \in Procs : Alone(p) /\ loadDashboardData(p)
    \/ \E p \in Procs, c \in Choices, s \in Ranges, e \in Ranges :
          Alone(p) /\ OpenStatement(p, c, s, e)
    \/ \E p \in Procs : Close(p)

ReportSpec == ReportInit /\ [][ReportNext]_vars

(* ------------------------- sign-in and inactivity ---------------------- *)
(* AuthProvider.login: mockAuth.signIn notifies the listeners, the effect  *)
(* on currentUser registers the activity listeners and calls resetTimer;   *)
(* an open confirm dialog is modal and covers the page                     *)
login(p, role) ==
    /\ pc[p] # "del_confirm"
    /\ auth[p].user = "none"
    /\ auth[p].out = "no"
    /\ auth' = [auth EXCEPT ![p] = SignedIn(role)]
    /\ UNCHANGED <<customers, invoices, payments, transactions, nextId,
                   clock, pc, loc, failures, ops, recorded>>

(* mousedown, mousemove, keypress, scroll or touchstart: resetTimer *)
Activity(p) ==
    /\ auth[p].user # "none"
    /\ auth' = [auth EXCEPT ![p] = Event(auth[p])]
    /\ UNCHANGED <<customers, invoices, payments, transactions, nextId,
                   clock, pc, loc, failures, ops, recorded>>

Minute(a) ==
    IF a.user = "none" THEN a
    ELSE [a EXCEPT !.idle = @ + 1,
                   !.timer = IF @ = NoTimer THEN NoTimer ELSE @ - 1]

(* a minute passes: no timer is due and no signOut, of half a second, is   *)
(* awaited                                                                 *)
Tick ==
    /\ \A p \in Procs : auth[p].timer # 0 /\ auth[p].out = "no"
    /\ \E p \in Procs : auth[p].user # "none"
    /\ auth' = [p \in Procs |-> Minute(auth[p])]
    /\ UNCHANGED <<customers, invoices, payments, transactions, nextId,
                   clock, pc, loc, failures, ops, recorded>>

(* the inactivity timer fires: if (currentUser) logout(), currentUser      *)
(* being the user the effect was run for                                   *)
TimerFires(p) ==
    /\ auth[p].timer = 0
    /\ auth' = [auth EXCEPT ![p] = [@ EXCEPT !.timer = NoTimer,
                                              !.out = "timer",
                                              !.firedAt = auth[p].idle]]
    /\ UNCHANGED <<customers, invoices, payments, transactions, nextId,
                   clock, pc, loc, failures, ops, recorded>>

(* AuthProvider.logout from the menu: await mockAuth.signOut() *)
logout(p) ==
    /\ pc[p] # "del_confirm"
    /\ auth[p].user # "none"
    /\ auth[p].out = "no"
    /\ auth' = [auth EXCEPT ![p] = [Event(@) EXCEPT !.out = "manual"]]
    /\ UNCHANGED <<customers, invoices, payments, transactions, nextId,
                   clock, pc, loc, failures, ops, recorded>>

(* mockAuth.signOut resolves: currentUser becomes null and the cleanup of  *)
(* the effect clears the timer and removes the listeners                   *)
signOut(p) ==
    /\ auth[p].out # "no"
    /\ auth' = [auth EXCEPT ![p] = SignedOut]
    /\ UNCHANGED <<customers, invoices, payments, transactions, nextId,
                   clock, pc, loc, failures, ops, recorded>>

AuthInit ==
    /\ customers = DemoCustomers
    /\ invoices = DemoInvoices
    /\ payments = DemoPayments
    /\ transactions = <<>>
    /\ nextId = FirstFreeId
    /\ clock = 0
    /\ pc = [p \in Procs |-> "idle"]
    /\ loc = [p \in Procs |-> IdleLoc]
    /\ failures = 0
    /\ ops = 0
    /\ recorded = {}
    /\ auth = [p \in Procs |-> SignedOut]

(* one browser: it signs in and out, is used or left alone, and deletes    *)
AuthNext ==
    \/ \E role \in Roles : login(1, role)
    \/ Activity(1)
    \/ Tick
    \/ TimerFires(1)
    \/ logout(1)
    \/ signOut(1)
    \/ \E i \in DOMAIN invoices : askDeleteInvoice(1, i)
    \/ DeleteInvoice(1, TRUE)
    \/ \E c \in Choices : askDeleteCustomer(1, c)
    \/ DeleteCustomer(1, TRUE)
    \/ Close(1)

AuthSpec == AuthInit /\ [][AuthNext]_vars

(* ------------------------------ properties ----------------------------- *)
Quiet == \A p \in Procs : pc[p] \notin HandlerPcs

Ended(p, op) == pc[p] = "done" /\ loc[p].op = op

Succeeded(p, op) == Ended(p, op) /\ loc[p].outcome = "success"

(* the sum of debit - credit over the stored transactions of a customer *)
RECURSIVE LedgerSum(_, _)
LedgerSum(txns, c) ==
    IF txns = <<>> THEN 0
    ELSE LET t == Head(txns)
         IN (IF t.customerId = c THEN t.debit - t.credit ELSE 0)
            + LedgerSum(Tail(txns), c)

LastOf(c) == LET own == OfCustomer(transactions, c) IN own[Len(own)]

(* C1: with no operation in progress, every customer's balance equals the  *)
(* sum of debit - credit over the stored transactions of that customer     *)
C1_BalanceIsLedgerSum ==
    Quiet => \A c \in DOMAIN customers :
                customers[c].balance = LedgerSum(transactions, c)

(* C2: a new sale invoice of total T submitted for an existing customer of *)
(* balance B leaves the balance at B + T, a new return at B - T            *)
C2_InvoiceMovesBalanceByTotal ==
    \A p \in Procs :
        (Succeeded(p, "invoice") /\ Exists(customers, loc[p].cust)) =>
            customers[loc[p].cust].balance =
                IF loc[p].inv.type = "sale"
                THEN loc[p].bal0 + loc[p].inv.total
                ELSE loc[p].bal0 - loc[p].inv.total

(* C3: a payment of amount A > 0 recorded by handleCreatePayment for an    *)
(* existing customer of balance B leaves the balance at B - A, negative    *)
(* results included                                                        *)
C3_PaymentLowersBalanceByAmount ==
    \A p \in Procs :
        (Succeeded(p, "payment") /\ Exists(customers, loc[p].cust)) =>
            /\ loc[p].amount > 0
            /\ customers[loc[p].cust].balance = loc[p].bal0 - loc[p].amount

C3_Witness ==
    \E p \in Procs :
        /\ Succeeded(p, "payment")
        /\ loc[p].bal0 = 25000 /\ loc[p].amount = 28500
        /\ Exists(customers, loc[p].cust)
        /\ customers[loc[p].cust].balance = -3500

(* C4: on a customer's statement (transactions by ascending date) every    *)
(* balance snapshot is the preceding snapshot plus the row's debit minus   *)
(* its credit                                                              *)
C4_StatementSnapshotsReplay ==
    \A c \in DOMAIN customers :
        LET rows == loadTransactions(c) IN
        \A i \in 2..Len(rows) :
            rows[i].balance =
                rows[i - 1].balance + rows[i].debit - rows[i].credit

(* C5: once a recording has completed for a customer, in every state with  *)
(* no recording in progress the customer's balance equals the snapshot of  *)
(* the customer's most recently created transaction                        *)
C5_BalanceIsLatestSnapshot ==
    Quiet => \A c \in recorded \cap DOMAIN customers :
                customers[c].balance = LastOf(c).balance

(* C6: a stored customer's balance changes only in the balance update of   *)
(* createTransaction, which has appended the transaction                   *)
C6_OnlyRecorderWritesBalance ==
    [][\A c \in DOMAIN customers \cap DOMAIN customers' :
          customers'[c].balance # customers[c].balance =>
              \E p \in Procs : /\ pc[p] = "ucb_update"
                               /\ loc[p].cust = c
                               /\ loc[p].ucbCaller = "createTransaction"]_vars

(* C7: after createTransaction has returned or failed, either the          *)
(* transaction is stored and the balance moved by debit - credit, or       *)
(* neither write is visible                                                *)
C7_RecordingIsAtomic ==
    \A p \in Procs :
        (loc[p].ctState \in {"returned", "failed"}
            /\ Exists(customers, loc[p].cust)) =>
            \/ /\ Len(transactions) = loc[p].ctLen0 + 1
               /\ customers[loc[p].cust].balance =
                      loc[p].ctBal0 + loc[p].debit - loc[p].credit
            \/ /\ Len(transactions) = loc[p].ctLen0
               /\ customers[loc[p].cust].balance = loc[p].ctBal0

(* C8: createTransaction called for a customerId that resolves to no       *)
(* customer does not complete as a successful call                         *)
C8_UnresolvedCustomerFails ==
    \A p \in Procs :
        loc[p].ctResolved = "absent" => loc[p].ctState # "returned"

C10_InvoiceAppendsOneTransaction ==
    \A p \in Procs :
        Succeeded(p, "invoice") =>
            /\ Len(transactions) = loc[p].len0 + 1
            /\ LET t == transactions[Len(transactions)] IN
               /\ t.customerId = loc[p].inv.customerId
               /\ IF loc[p].inv.type = "sale"
                  THEN t.type = "invoice" /\ t.debit = loc[p].inv.total
                       /\ t.credit = 0
                  ELSE t.type = "return" /\ t.debit = 0
                       /\ t.credit = loc[p].inv.total

(* the step is taken by session p *)
Acting(p) == pc'[p] # pc[p] \/ loc'[p] # loc[p]

(* C11: the steps of an invoice edit (InvoiceForm submitted with           *)
(* initialData) append no transaction, change no customer and no payment,  *)
(* and change no invoice other than the edited one                         *)
C11_EditChangesOnlyItsInvoice ==
    [][\A p \in Procs :
          (loc[p].op = "editInvoice" /\ Acting(p)) =>
              /\ transactions' = transactions
              /\ customers' = customers
              /\ payments' = payments
              /\ DOMAIN invoices' = DOMAIN invoices
              /\ \A j \in DOMAIN invoices \ {loc[p].target} :
                    invoices'[j] = invoices[j]]_vars

C11_Witness ==
    \E p \in Procs :
        /\ Succeeded(p, "editInvoice")
        /\ Exists(invoices, loc[p].target)
        /\ invoices[loc[p].target] = loc[p].inv
        /\ loc[p].inv.total # loc[p].inv0.total
        /\ loc[p].inv.customerId # loc[p].inv0.customerId
        /\ loc[p].inv.type # loc[p].inv0.type

(* C12: a stored invoice whose customer and items stay the same keeps its  *)
(* discountRate, discountAmount and total in every step, whatever happens  *)
(* to the customer's discount rate                                         *)
C12_DiscountIsFrozen ==
    [][\A i \in DOMAIN invoices \cap DOMAIN invoices' :
          (/\ invoices'[i].customerId = invoices[i].customerId
           /\ invoices'[i].items = invoices[i].items) =>
              /\ invoices'[i].discountRate = invoices[i].discountRate
              /\ invoices'[i].discountAmount = invoices[i].discountAmount
              /\ invoices'[i].total = invoices[i].total]_vars

RECURSIVE SumOfLines(_)
SumOfLines(items) ==
    IF items = <<>> THEN 0
    ELSE Head(items).quantity * Head(items).unitPrice
         + SumOfLines(Tail(items))

(* C13: every line of a stored invoice has total = quantity * unitPrice    *)
(* and the invoice's subtotal is the sum of quantity * unitPrice           *)
C13_LineTotalsAreProducts ==
    \A i \in DOMAIN invoices :
        /\ \A k \in 1..Len(invoices[i].items) :
              invoices[i].items[k].total =
                  invoices[i].items[k].quantity
                      * invoices[i].items[k].unitPrice
        /\ invoices[i].subtotal = SumOfLines(invoices[i].items)

(* the invoice form of session p has passed validation and submitted *)
Submitted(p) ==
    /\ loc[p].op \in {"invoice", "editInvoice"}
    /\ pc[p] \in HandlerPcs \cup {"done"}
    /\ loc[p].outcome # "invalid"

(* C14: a submitted invoice carries the discount rate of its selected      *)
(* customer, discountAmount = subtotal * discountRate / 100 and            *)
(* total = subtotal - discountAmount; the stored invoice is the submitted  *)
(* one                                                                     *)
C14_DiscountFormula ==
    \A p \in Procs :
        /\ Submitted(p) =>
              /\ loc[p].inv.discountRate = customers[loc[p].cust].discountRate
              /\ loc[p].inv.discountAmount * 100 =
                     loc[p].inv.subtotal * loc[p].inv.discountRate
              /\ loc[p].inv.total =
                     loc[p].inv.subtotal - loc[p].inv.discountAmount
        /\ Succeeded(p, "invoice") => invoices[nextId - 1] = loc[p].inv
        /\ Succeeded(p, "editInvoice") =>
              invoices[loc[p].target] = loc[p].inv

C14_Witness ==
    \E p \in Procs :
        /\ Succeeded(p, "invoice")
        /\ Len(loc[p].inv.items) = 1
        /\ loc[p].inv.items[1].quantity = 2
        /\ loc[p].inv.items[1].unitPrice = 15000
        /\ invoices[nextId - 1].subtotal = 30000
        /\ invoices[nextId - 1].discountRate = 5
        /\ invoices[nextId - 1].discountAmount = 1500
        /\ invoices[nextId - 1].total = 28500

(* C15: an invoice whose stored status is paid, partial or cancelled keeps *)
(* that status in every step                                               *)
C15_StatusLeavesPendingOnly ==
    [][\A i \in DOMAIN invoices \cap DOMAIN invoices' :
          invoices[i].status # "pending" =>
              invoices'[i].status = invoices[i].status]_vars

(* C16: no two stored invoices carry the same order number *)
C16_OrderNumbersUnique ==
    \A i, j \in DOMAIN invoices :
        i # j => invoices[i].orderNumber # invoices[j].orderNumber

(* C17: with no operation in progress, the referenceId of every invoice or *)
(* return transaction identifies a stored invoice and the referenceId of   *)
(* every payment transaction identifies a stored payment                   *)
C17_ReferencesResolve ==
    Quiet => \A k \in 1..Len(transactions) :
        LET t == transactions[k] IN
        IF t.type = "payment"
        THEN t.referenceId.kind = "payment"
             /\ Exists(payments, t.referenceId.n)
        ELSE \E i \in DOMAIN invoices :
                /\ invoices[i].orderNumber.day = t.referenceId.day
                /\ invoices[i].orderNumber.time = t.referenceId.n

(* C18: after a delete-customer operation every stored transaction's       *)
(* customerId resolves to a stored customer                                *)
C18_NoDeleteWhileReferenced ==
    \A p \in Procs :
        Ended(p, "deleteCustomer") =>
            \A k \in 1..Len(transactions) :
                Exists(customers, transactions[k].customerId)

(* the submission fails validation: a payment with no customer or an       *)
(* amount <= 0, a customer with a missing field or a rate outside 0..100,  *)
(* an invoice with no customer or no items                                 *)
Rejected(l) ==
    \/ l.op = "payment" /\ (~l.selected \/ l.amount <= 0)
    \/ /\ l.op \in {"createCustomer", "editCustomer"}
       /\ (~l.filled \/ l.rate < 0 \/ l.rate > 100)
    \/ /\ l.op \in {"invoice", "editInvoice"}
       /\ (~l.selected \/ Len(l.inv.items) = 0)

(* C19: no step of a submission that fails validation writes to the        *)
(* customers, invoices, payments or transactions collection                *)
C19_InvalidSubmissionWritesNothing ==
    [][\A p \in Procs :
          (/\ Acting(p)
           /\ pc'[p] \in HandlerPcs \cup {"done"}
           /\ Rejected(loc'[p])) =>
              UNCHANGED <<customers, invoices, payments, transactions>>]_vars

C19_Witness ==
    /\ \E p \in Procs :
          /\ Ended(p, "payment") /\ loc[p].selected /\ loc[p].amount <= 0
          /\ loc[p].outcome = "invalid"
    /\ payments = DemoPayments /\ transactions = <<>>

(* C20: a handler that ended after a persistence call was rejected has     *)
(* shown the error notification (the rejection was caught)                 *)
C20_FailureIsNotified ==
    \A p \in Procs : pc[p] = "done" => loc[p].outcome # "unhandled"

(* C25: when both sessions have recorded a payment for the same customer, *)
(* the only recordings so far, the balance is the initial balance minus    *)
(* both amounts and the later transaction's snapshot is that balance       *)
C25_NoLostUpdate ==
    (/\ \A p \in Procs : Succeeded(p, "payment")
     /\ loc[1].cust = loc[2].cust
     /\ loc[1].cust \in DOMAIN DemoCustomers \cap DOMAIN customers
     /\ Len(transactions) = 2) =>
        LET c == loc[1].cust IN
        /\ customers[c].balance =
               DemoCustomers[c].balance - loc[1].amount - loc[2].amount
        /\ transactions[2].balance = customers[c].balance

(* C26: the 'New Balance' the payment form showed, computed from a current *)
(* balance, equals the stored balance once the payment is recorded         *)
C26_PreviewIsStoredBalance ==
    \A p \in Procs :
        (/\ Succeeded(p, "payment")
         /\ Exists(customers, loc[p].cust)
         /\ loc[p].snapBalance = loc[p].bal0) =>
            customers[loc[p].cust].balance =
                PreviewBalance(loc[p].snapBalance, loc[p].amount,
                               loc[p].ptype)

(* C28: the steps of an invoice delete change no customer, no transaction, *)
(* no payment and no invoice other than the deleted one                    *)
C28_DeleteRemovesOnlyTheInvoice ==
    [][\A p \in Procs :
          (Acting(p) /\ "deleteInvoice" \in {loc[p].op, loc'[p].op}) =>
              LET target == IF loc'[p].op = "deleteInvoice"
                            THEN loc'[p].target ELSE loc[p].target
              IN /\ customers' = customers
                 /\ transactions' = transactions
                 /\ payments' = payments
                 /\ DOMAIN invoices' \subseteq DOMAIN invoices
                 /\ \A j \in DOMAIN invoices \ {target} :
                       j \in DOMAIN invoices' /\ invoices'[j] = invoices[j]]_vars

C28_Witness ==
    \E p \in Procs :
        /\ Succeeded(p, "deleteInvoice")
        /\ ~Exists(invoices, loc[p].target)
        /\ DOMAIN DemoInvoices \subseteq DOMAIN invoices
        /\ Exists(customers, loc[p].cust)
        /\ customers[loc[p].cust].balance = loc[p].bal0
        /\ loc[p].bal0 # DemoCustomers[loc[p].cust].balance
        /\ \E k \in 1..Len(transactions) :
              /\ transactions[k].type = "invoice"
              /\ transactions[k].referenceId.n = loc[p].inv.orderNumber.time
              /\ transactions[k].referenceId.day = loc[p].inv.orderNumber.day

(* the day of a dated record lies in the period of the filters *)
InRange(date, filters) ==
    /\ filters.startDate # <<>> => filters.startDate[1] <= date[1]
    /\ filters.endDate # <<>> => date[1] <= filters.endDate[1]

OnlyDates(filters) ==
    filters = [NoFilters EXCEPT !.startDate = filters.startDate,
                                !.endDate = filters.endDate]

IdsOf(data) == {data[k].id : k \in 1..Len(data)}

Dated(coll, filters) == {k \in DOMAIN coll : InRange(coll[k].date, filters)}

(* C21: with only dates filtered on, a sales or payments report lists      *)
(* exactly the records whose day is from startDate to endDate, both days   *)
(* included, and the summary report counts exactly those                   *)
C21_DateFiltersInclusive ==
    \A p \in Procs :
        LET v == loc[p].view IN
        /\ (v.kind = "sales" /\ OnlyDates(v.filters)) =>
               IdsOf(v.data) = Dated(invoices, v.filters)
        /\ (v.kind = "payments" /\ OnlyDates(v.filters)) =>
               IdsOf(v.data) = Dated(payments, v.filters)
        /\ v.kind = "summary" =>
               /\ v.data[1].value = Cardinality(Dated(invoices, v.filters))
               /\ v.data[4].value = Cardinality(Dated(payments, v.filters))

C21_Witness ==
    \E p \in Procs :
        LET v == loc[p].view IN
        /\ v.kind = "sales"
        /\ v.filters = [NoFilters EXCEPT !.startDate = <<SeedDay>>,
                                         !.endDate = <<SeedDay>>]
        /\ IdsOf(v.data) = DOMAIN invoices
        /\ \A k \in DOMAIN invoices : invoices[k].date = <<SeedDay>>

(* the attribute of a domain's rows that a filter is about *)
AttributeOf(kind, filter) ==
    IF kind = "payments" /\ filter = "paymentMethod" THEN "method"
    ELSE filter

Wanted(kind, coll, filters) ==
    {k \in DOMAIN coll :
        /\ (filters.startDate # <<>> \/ filters.endDate # <<>>) =>
              "date" \in DOMAIN coll[k] /\ InRange(coll[k].date, filters)
        /\ filters.customerId # NoId =>
              FieldIs(coll[k], AttributeOf(kind, "customerId"),
                      filters.customerId)
        /\ filters.productId # NoId =>
              FieldIs(coll[k], AttributeOf(kind, "productId"),
                      filters.productId)
        /\ filters.category # "" =>
              FieldIs(coll[k], AttributeOf(kind, "category"),
                      filters.category)
        /\ filters.paymentMethod # "" =>
              FieldIs(coll[k], AttributeOf(kind, "paymentMethod"),
                      filters.paymentMethod)
        /\ filters.status # "" =>
              FieldIs(coll[k], AttributeOf(kind, "status"), filters.status)}

(* C22: a per-domain report lists exactly the rows of its domain whose     *)
(* attributes equal the filters that are set and whose day is in the       *)
(* period, each row as stored                                              *)
C22_ReportRowsMatchFilters ==
    \A p \in Procs :
        LET v == loc[p].view IN
        v.kind \in ReportTypes \ {"summary"} =>
            /\ IdsOf(v.data) = Wanted(v.kind, ServiceOf(v.kind), v.filters)
            /\ \A k \in 1..Len(v.data) :
                  v.data[k].row = ServiceOf(v.kind)[v.data[k].id]

(* C24: a step that shows a report, the dashboard or a statement changes   *)
(* no collection                                                           *)
C24_ReadPathNeverWrites ==
    [][(\E p \in Procs : Acting(p) /\ loc'[p].op = "view") =>
          UNCHANGED <<customers, invoices, payments, transactions>>]_vars

C24_Witness ==
    \E p \in Procs :
        /\ Ended(p, "view")
        /\ loc[p].view.kind = "payments"
        /\ loc[p].view.filters = NoFilters
        /\ IdsOf(loc[p].view.data) = DOMAIN payments
        /\ Cardinality(DOMAIN payments) = 2

(* C29: with a start date and an end date selected, the statement lists    *)
(* every transaction of the customer recorded on the start day or on the   *)
(* end day                                                                 *)
C29_StatementIncludesBoundaryDays ==
    \A p \in Procs :
        LET v == loc[p].view IN
        (v.kind = "statement" /\ v.filters.startDate # <<>>
                              /\ v.filters.endDate # <<>>) =>
            \A k \in 1..Len(transactions) :
                (/\ transactions[k].customerId = loc[p].cust
                 /\ transactions[k].date \div MsPerDay \in
                        {v.filters.startDate[1], v.filters.endDate[1]}) =>
                    \E j \in 1..Len(v.data) : v.data[j] = transactions[k]

(* the revenue of a product: the sum of the totals of its lines *)
RECURSIVE RevenueOf(_, _)
RevenueOf(items, productId) ==
    IF items = <<>> THEN 0
    ELSE (IF Head(items).productId = productId THEN Head(items).total ELSE 0)
         + RevenueOf(Tail(items), productId)

FirstLineOf(items, productId) ==
    CHOOSE k \in 1..Len(items) :
        /\ items[k].productId = productId
        /\ \A j \in 1..(k - 1) : items[j].productId # productId

(* C23: the top-selling list holds at most 5 products, each once and with  *)
(* the sum of its line totals as revenue, in non-increasing revenue and,   *)
(* at equal revenue, in the order of first appearance in the invoice list; *)
(* no omitted product has more revenue than a listed one                   *)
C23_TopSellingOrder ==
    \A p \in Procs :
        LET v == loc[p].view
            top == v.data
            items == AllItems(Ascending(invoices, DOMAIN invoices))
            sold == {items[k].productId : k \in 1..Len(items)}
            listed == {top[k].productId : k \in 1..Len(top)}
        IN v.kind = "dashboard" =>
            /\ Len(top) <= 5
            /\ listed \subseteq sold
            /\ Cardinality(listed) = Len(top)
            /\ \A k \in 1..Len(top) :
                  top[k].revenue = RevenueOf(items, top[k].productId)
            /\ \A j, k \in 1..Len(top) :
                  j < k =>
                    /\ top[j].revenue >= top[k].revenue
                    /\ top[j].revenue = top[k].revenue =>
                          FirstLineOf(items, top[j].productId) <
                              FirstLineOf(items, top[k].productId)
            /\ \A out \in sold \ listed : \A k \in 1..Len(top) :
                  RevenueOf(items, out) <= top[k].revenue
            /\ sold # listed => Len(top) = 5

C23_Witness ==
    \E p \in Procs :
        LET top == loc[p].view.data IN
        /\ loc[p].view.kind = "dashboard"
        /\ Len(top) = 5
        /\ top[1].revenue = top[2].revenue
        /\ top[2].revenue > top[5].revenue
        /\ top[1].productId > top[2].productId

(* the steps that show the confirm dialog of a delete, and those that      *)
(* call the store's delete                                                 *)
Asks(p) == pc[p] = "idle" /\ pc'[p] = "del_confirm"

Deletes(p) == pc[p] = "del_confirm" /\ pc'[p] = "done"

ModuleOf(op) == IF op = "deleteInvoice" THEN "sales" ELSE "customers"

(* C27: a delete of an invoice or a customer is asked for, and is carried  *)
(* out, only by a session whose signed-in user has role admin, the one     *)
(* role with canDelete                                                     *)
C27_DeleteNeedsCanDelete ==
    [][\A p \in Procs :
          /\ Asks(p) => /\ auth[p].user = "admin"
                        /\ CanDelete(auth[p].user, ModuleOf(loc'[p].op))
          /\ Deletes(p) => /\ auth[p].user = "admin"
                           /\ CanDelete(auth[p].user, ModuleOf(loc[p].op))]_vars

(* C30: a signed-out session has no pending timer; while a user is signed  *)
(* in and no logout is awaited, the timer has Timeout minus the idle       *)
(* minutes left, so each activity event restarts it and it is due after    *)
(* Timeout idle minutes; a logout invoked by the timer was invoked at      *)
(* Timeout idle minutes, and no session is idle for longer                 *)
C30_InactivityLogout ==
    \A p \in Procs :
        LET a == auth[p] IN
        /\ a.user = "none" => a.timer = NoTimer /\ a.out = "no"
        /\ (a.user # "none" /\ a.out = "no") => a.timer = Timeout - a.idle
        /\ a.out = "timer" => a.firedAt = Timeout
        /\ a.idle <= Timeout

C30_Witness ==
    /\ auth[1].user # "none"
    /\ auth[1].out = "timer"
    /\ auth[1].firedAt = Timeout
    /\ auth[1].idle = 0
    /\ auth[1].timer = Timeout

====
